---- MODULE Spec2Model ----
(***************************************************************************)
(* Settlement engine (POST /jobs/:job_id/pay), deposit limiter             *)
(* (POST /balances/deposit) and aggregations (GET /admin/best-profession,  *)
(* GET /admin/best-clients) of src/src/app.js, modelled as concurrent      *)
(* request handlers over a transactional store.  Every `await` of a        *)
(* handler that touches the store is one atomic step; the writes of a      *)
(* transaction become visible to other transactions at its commit and are  *)
(* discarded when the callback throws (sequelize managed transaction).     *)
(***************************************************************************)
EXTENDS Integers, FiniteSets, Sequences, TLC

\* ------------------------------------------------------------------ bounds
\* number of requests a behaviour issues
MaxReq == 2
\* largest deposit amount a caller sends
MaxAmount == 2

\* ------------------------------------------------------- the stored records
Clients == {1, 2}
Contractors == {3, 4}
Profiles == Clients \cup Contractors
\* a ContractorId that references no Profile row
NoProfile == 0
\* paymentDate of a job that has none
NoDate == -1

ProfileType(p) == IF p \in Clients THEN "client" ELSE "contractor"

Contracts == 1 .. 4
ContractStatus(c) == CASE c = 1 -> "in_progress"
                       [] c = 2 -> "terminated"
                       [] c = 3 -> "in_progress"
                       [] c = 4 -> "in_progress"
ContractClientId(c) == CASE c = 1 -> 1
                         [] c = 2 -> 1
                         [] c = 3 -> 2
                         [] c = 4 -> 1
ContractContractorId(c) == CASE c = 1 -> 3
                             [] c = 2 -> 3
                             [] c = 3 -> 4
                             [] c = 4 -> NoProfile

Jobs == 1 .. 5
JobContractId(j) == CASE j = 1 -> 1
                      [] j = 2 -> 1
                      [] j = 3 -> 2
                      [] j = 4 -> 3
                      [] j = 5 -> 4
JobPrice(j) == CASE j = 1 -> 1
                 [] j = 2 -> 2
                 [] j = 3 -> 1
                 [] j = 4 -> 4
                 [] j = 5 -> 1
\* the jobs that are paid before any request, and the date they were paid
SeedPaid(j) == j = 4
SeedDate == 0
\* the balances before any request
SeedBalance(p) == CASE p = 1 -> 2
                    [] p = 2 -> 0
                    [] p = 3 -> 1
                    [] p = 4 -> 1

\* job ids a caller may put in the path: every stored job and one unknown id
JobIdInputs == Jobs \cup {Cardinality(Jobs) + 1}

\* req.query.amount as sent: a number, or absent
AmountInputs == {[kind |-> "number", val |-> v] : v \in (0 - 1) .. MaxAmount}
                  \cup {[kind |-> "missing", val |-> 0]}

\* the profession of each contractor
Profession(p) == CASE p = 3 -> "programmer"
                   [] p = 4 -> "musician"

\* req.query.start and req.query.end as sent: a date, or absent (NoDate)
DateInputs == {NoDate, 0, 1, 2}

\* req.query.limit as sent: digits with an optional sign, other text, or absent
LimitInputs == {[kind |-> "number", val |-> v] : v \in (0 - 1) .. 2}
                 \cup {[kind |-> "text", val |-> 0], [kind |-> "missing", val |-> 0]}

Req == 1 .. MaxReq

VARIABLES
    balance,      \* committed Profile.balance
    paid,         \* committed Job.paid
    paymentDate,  \* committed Job.paymentDate
    now,          \* the clock read by new Date()
    req,          \* per request in flight: position in its handler, inputs, locals
    resp,         \* the request that ended last, with its response
    issued,       \* number of requests received so far
    debits,       \* history: per job, committed debits of its price from its client
    credits,      \* history: per job, committed credits of its price to its contractor
    deposited     \* history: total of the committed deposit amounts

vars == <<balance, paid, paymentDate, now, req, resp, issued, debits, credits, deposited>>
db == <<balance, paid, paymentDate>>

Idle == [pc |-> "idle", seq |-> 0, op |-> "none", caller |-> 0, job |-> 0,
         nan |-> FALSE, amount |-> 0, price |-> 0, client |-> 0,
         contractor |-> 0, pdate |-> NoDate, status |-> 0,
         failedAt |-> "none", settledBefore |-> 0, exposure |-> 0,
         start |-> NoDate, end |-> NoDate,
         limit |-> [kind |-> "missing", val |-> 0], rows |-> <<>>]

\* ------------------------------------------------------------- the store
\* rows a transaction has written and not yet committed
HeldRows(q) ==
    LET x == req[q] IN
    (IF x.pc \in {"increment", "save", "commit"} THEN {<<"Profile", x.client>>} ELSE {})
    \cup (IF x.pc \in {"save", "commit"} THEN {<<"Profile", x.contractor>>} ELSE {})
    \cup (IF x.pc = "commit" THEN {<<"Job", x.job>>} ELSE {})
    \cup (IF x.pc = "dcommit" THEN {<<"Profile", x.caller>>} ELSE {})

\* an UPDATE of a row waits for the transaction that wrote it to end
RowFree(r, row) == \A q \in Req \ {r} : row \notin HeldRows(q)

\* a new request takes the first free slot
MayStart(r) ==
    /\ issued < MaxReq
    /\ req[r].pc = "idle"
    /\ \A q \in Req : q < r => req[q].pc # "idle"

\* a request as received: the seq-th request, op by caller
Received(op, caller) == [Idle EXCEPT !.seq = issued + 1, !.op = op, !.caller = caller]

\* the response of a handler: its status code and the step that produced it
Finish(x, code, at) == [x EXCEPT !.pc = "done", !.status = code, !.failedAt = at]

\* mutant: the deposit writes the amount as the balance instead of adding it
AppliedDepositSets(x) ==
    LET debit == x.pc \in {"increment", "save", "commit"}
        credit == x.pc \in {"save", "commit"}
        mark == x.pc = "commit"
        deposit == x.pc = "dcommit"
    IN [balance |-> [p \in Profiles |->
                        IF deposit /\ p = x.caller THEN x.amount
                        ELSE balance[p]
                             - (IF debit /\ p = x.client THEN x.price ELSE 0)
                             + (IF credit /\ p = x.contractor THEN x.price ELSE 0)],
        paid |-> [j \in Jobs |-> IF mark /\ j = x.job THEN TRUE ELSE paid[j]],
        paymentDate |-> [j \in Jobs |-> IF mark /\ j = x.job THEN x.pdate
                                                                ELSE paymentDate[j]]]

\* the committed records once the writes transaction x has issued are applied
Applied(x) ==
    LET debit == x.pc \in {"increment", "save", "commit"}
        credit == x.pc \in {"save", "commit"}
        mark == x.pc = "commit"
        deposit == x.pc = "dcommit"
    IN [balance |-> [p \in Profiles |->
                        balance[p]
                        - (IF debit /\ p = x.client THEN x.price ELSE 0)
                        + (IF credit /\ p = x.contractor THEN x.price ELSE 0)
                        + (IF deposit /\ p = x.caller THEN x.amount ELSE 0)],
        paid |-> [j \in Jobs |-> IF mark /\ j = x.job THEN TRUE ELSE paid[j]],
        paymentDate |-> [j \in Jobs |-> IF mark /\ j = x.job THEN x.pdate
                                                                ELSE paymentDate[j]]]

\* the callback returned: the transaction commits its writes
Commit(x) == Applied(x)

\* mutant: the failure is answered without throwing, so the writes are kept
RollbackKeepsWrites(x) == Applied(x)

\* the callback threw: the transaction is rolled back and its writes are dropped
Rollback(x) == [balance |-> balance, paid |-> paid, paymentDate |-> paymentDate]

SetDb(d) ==
    /\ balance' = d.balance
    /\ paid' = d.paid
    /\ paymentDate' = d.paymentDate

HistUnchanged == UNCHANGED <<debits, credits, deposited>>

Init ==
    /\ balance = [p \in Profiles |-> SeedBalance(p)]
    /\ paid = [j \in Jobs |-> SeedPaid(j)]
    /\ paymentDate = [j \in Jobs |-> IF SeedPaid(j) THEN SeedDate ELSE NoDate]
    /\ now = 1
    /\ req = [r \in Req |-> Idle]
    /\ resp = Idle
    /\ issued = 0
    /\ debits = [j \in Jobs |-> 0]
    /\ credits = [j \in Jobs |-> 0]
    /\ deposited = 0

\* ------------------------------------------------ POST /jobs/:job_id/pay
\* mutant: findOne without the paid filter
FindUnpaidJobAnyPaid(caller, jobId) ==
    /\ jobId \in Jobs
    /\ ContractStatus(JobContractId(jobId)) = "in_progress"
    /\ ContractClientId(JobContractId(jobId)) = caller

\* mutant: findOne without the contract status filter
FindUnpaidJobAnyStatus(caller, jobId) ==
    /\ jobId \in Jobs
    /\ paid[jobId] # TRUE
    /\ ContractClientId(JobContractId(jobId)) = caller

\* Job.findOne: the job with this id, not paid, under an in_progress contract
\* of the caller
FindUnpaidJob(caller, jobId) ==
    /\ jobId \in Jobs
    /\ paid[jobId] # TRUE
    /\ ContractStatus(JobContractId(jobId)) = "in_progress"
    /\ ContractClientId(JobContractId(jobId)) = caller

\* mutant: <= in place of <
BalanceInsufficientInclusive(bal, price) == bal <= price

\* the check on the balance that findOne read
BalanceInsufficient(bal, price) == bal < price

\* mutant: a decrement without the balance guard
DecrementGuardNone(bal, price) == TRUE

\* the where clause of Profile.decrement
DecrementGuard(bal, price) == bal >= price

\* mutant: the affected-rows result of Profile.increment is not looked at
ContractorRowAssumed(p) == TRUE

\* the where clause of Profile.increment matches a row
ContractorRowExists(p) == p \in Profiles

SettledCount(jobId) == IF jobId \in Jobs THEN debits[jobId] ELSE 0

\* mutant: no role check
NotClientNever(profileType) == FALSE

\* profileType !== 'client'
NotClient(profileType) == profileType # "client"

PayForbidden(r, caller, jobId) ==
    /\ MayStart(r)
    /\ NotClient(ProfileType(caller))
    /\ resp' = Finish([Received("pay", caller) EXCEPT
                            !.job = jobId, !.settledBefore = SettledCount(jobId)],
                       403, "role")
    /\ issued' = issued + 1
    /\ UNCHANGED <<db, now, req>>
    /\ HistUnchanged

PayFind(r, caller, jobId) ==
    /\ MayStart(r)
    /\ ~NotClient(ProfileType(caller))
    /\ LET x == [Received("pay", caller) EXCEPT
                     !.job = jobId, !.settledBefore = SettledCount(jobId)]
       IN IF ~FindUnpaidJob(caller, jobId)
          THEN resp' = Finish(x, 404, "find") /\ UNCHANGED req
          ELSE IF BalanceInsufficient(balance[caller], JobPrice(jobId))
          THEN resp' = Finish(x, 409, "read") /\ UNCHANGED req
          ELSE /\ req' = [req EXCEPT ![r] =
                            [x EXCEPT !.pc = "decrement",
                                      !.price = JobPrice(jobId),
                                      !.client = ContractClientId(JobContractId(jobId)),
                                      !.contractor = ContractContractorId(JobContractId(jobId))]]
               /\ UNCHANGED resp
    /\ issued' = issued + 1
    /\ UNCHANGED <<db, now>>
    /\ HistUnchanged

PayDecrement(r) ==
    LET x == req[r] IN
    /\ x.pc = "decrement"
    /\ RowFree(r, <<"Profile", x.client>>)
    /\ IF DecrementGuard(balance[x.client], x.price)
       THEN /\ req' = [req EXCEPT ![r].pc = "increment"]
            /\ UNCHANGED <<db, resp>>
       ELSE /\ resp' = Finish(x, 409, "decrement")
            /\ req' = [req EXCEPT ![r] = Idle]
            /\ SetDb(Rollback(x))
    /\ UNCHANGED <<now, issued>>
    /\ HistUnchanged

PayIncrement(r) ==
    LET x == req[r] IN
    /\ x.pc = "increment"
    /\ RowFree(r, <<"Profile", x.contractor>>)
    /\ IF ContractorRowExists(x.contractor)
       THEN /\ req' = [req EXCEPT ![r].pc = "save"]
            /\ UNCHANGED <<db, resp>>
       ELSE /\ resp' = Finish(x, 500, "increment")
            /\ req' = [req EXCEPT ![r] = Idle]
            /\ SetDb(Rollback(x))
    /\ UNCHANGED <<now, issued>>
    /\ HistUnchanged

PaySave(r) ==
    LET x == req[r] IN
    /\ x.pc = "save"
    /\ RowFree(r, <<"Job", x.job>>)
    /\ req' = [req EXCEPT ![r].pc = "commit", ![r].pdate = now]
    /\ now' = now + 1
    /\ UNCHANGED <<db, resp, issued>>
    /\ HistUnchanged

PayCommit(r) ==
    LET x == req[r] IN
    /\ x.pc = "commit"
    /\ SetDb(Commit(x))
    /\ resp' = Finish(x, 200, "none")
    /\ req' = [req EXCEPT ![r] = Idle]
    /\ debits' = [debits EXCEPT ![x.job] = @ + 1]
    /\ credits' = [credits EXCEPT ![x.job] = @ + 1]
    /\ UNCHANGED <<now, issued, deposited>>

\* ------------------------------------------------ POST /balances/deposit
\* parseFloat(req.query.amount): the number sent, NaN when none was sent
ParseFloat(raw) ==
    IF raw.kind = "number" THEN [nan |-> FALSE, val |-> raw.val]
                           ELSE [nan |-> TRUE, val |-> 0]

\* the rows Job.sum adds up: unpaid jobs under in_progress contracts of the caller
UnpaidJobRows(caller) ==
    {j \in Jobs : /\ paid[j] # TRUE
                  /\ ContractStatus(JobContractId(j)) = "in_progress"
                  /\ ContractClientId(JobContractId(j)) = caller}

RECURSIVE SumPrice(_)
SumPrice(S) ==
    IF S = {} THEN 0
    ELSE LET j == CHOOSE k \in S : TRUE IN JobPrice(j) + SumPrice(S \ {j})

\* Job.sum('price', ...): SUM over no rows is null
UnpaidJobsPriceSum(caller) ==
    IF UnpaidJobRows(caller) = {} THEN [null |-> TRUE, val |-> 0]
    ELSE [null |-> FALSE, val |-> SumPrice(UnpaidJobRows(caller))]

\* mutant: >= in place of >
OverLimitInclusive(amt, sum) ==
    IF amt.nan THEN FALSE
    ELSE 4 * amt.val >= (IF sum.null THEN 0 ELSE sum.val)

\* mutant: a null sum compares as NaN, so no exposure means no limit
OverLimitNullUnlimited(amt, sum) ==
    IF amt.nan \/ sum.null THEN FALSE
    ELSE 4 * amt.val > sum.val

\* depositAmount > unpaidJobsPriceSum / 4: null divides as 0, and every
\* comparison with NaN is false
OverLimit(amt, sum) ==
    IF amt.nan THEN FALSE
    ELSE 4 * amt.val > (IF sum.null THEN 0 ELSE sum.val)

DepositForbidden(r, caller, raw) ==
    /\ MayStart(r)
    /\ NotClient(ProfileType(caller))
    /\ resp' = Finish([Received("deposit", caller) EXCEPT
                            !.nan = ParseFloat(raw).nan, !.amount = ParseFloat(raw).val],
                       403, "role")
    /\ issued' = issued + 1
    /\ UNCHANGED <<db, now, req>>
    /\ HistUnchanged

DepositSum(r, caller, raw) ==
    /\ MayStart(r)
    /\ ~NotClient(ProfileType(caller))
    /\ LET amt == ParseFloat(raw)
           sum == UnpaidJobsPriceSum(caller)
           x == [Received("deposit", caller) EXCEPT
                     !.nan = amt.nan, !.amount = amt.val,
                     !.exposure = IF sum.null THEN 0 ELSE sum.val]
       IN IF OverLimit(amt, sum)
          THEN resp' = Finish(x, 409, "limit") /\ UNCHANGED req
          ELSE req' = [req EXCEPT ![r] = [x EXCEPT !.pc = "dincrement"]] /\ UNCHANGED resp
    /\ issued' = issued + 1
    /\ UNCHANGED <<db, now>>
    /\ HistUnchanged

\* req.profile.increment: balance = balance + NaN is not valid SQL, the query throws
DepositIncrement(r) ==
    LET x == req[r] IN
    /\ x.pc = "dincrement"
    /\ RowFree(r, <<"Profile", x.caller>>)
    /\ IF x.nan
       THEN /\ resp' = Finish(x, 500, "increment")
            /\ req' = [req EXCEPT ![r] = Idle]
            /\ SetDb(Rollback(x))
       ELSE /\ req' = [req EXCEPT ![r].pc = "dcommit"]
            /\ UNCHANGED <<db, resp>>
    /\ UNCHANGED <<now, issued>>
    /\ HistUnchanged

DepositCommit(r) ==
    LET x == req[r] IN
    /\ x.pc = "dcommit"
    /\ SetDb(Commit(x))
    /\ resp' = Finish(x, 200, "none")
    /\ req' = [req EXCEPT ![r] = Idle]
    /\ deposited' = deposited + x.amount
    /\ UNCHANGED <<now, issued, debits, credits>>

\* --------------------------------------------------------- GET /admin/...
\* mutant: a start bound that excludes the bound itself
WhereConditionAfterStart(j, start, end) ==
    /\ paid[j] = TRUE
    /\ start # NoDate => paymentDate[j] > start
    /\ end # NoDate => paymentDate[j] <= end

\* whereCondition: paid, paymentDate >= start if (start), <= end if (end)
WhereCondition(j, start, end) ==
    /\ paid[j] = TRUE
    /\ start # NoDate => paymentDate[j] >= start
    /\ end # NoDate => paymentDate[j] <= end

\* the job rows left by the inner joins Job -> Contract -> Contractor
ContractorJobRows(start, end) ==
    {j \in Jobs : /\ WhereCondition(j, start, end)
                  /\ JobContractId(j) \in Contracts
                  /\ ContractContractorId(JobContractId(j)) \in Profiles}

\* the job rows left by the inner joins Job -> Contract -> Client
ClientJobRows(start, end) ==
    {j \in Jobs : /\ WhereCondition(j, start, end)
                  /\ JobContractId(j) \in Contracts
                  /\ ContractClientId(JobContractId(j)) \in Profiles}

\* group by Contract.Contractor.profession, with SUM(price) of each group
ProfessionGroups(start, end) ==
    {Profession(ContractContractorId(JobContractId(j))) : j \in ContractorJobRows(start, end)}
ProfessionSum(start, end, profession) ==
    SumPrice({j \in ContractorJobRows(start, end) :
                 Profession(ContractContractorId(JobContractId(j))) = profession})

\* order by SUM(price) DESC, first row: a group no other group exceeds
TopProfessions(start, end) ==
    {g \in ProfessionGroups(start, end) :
        \A h \in ProfessionGroups(start, end) :
            ProfessionSum(start, end, h) <= ProfessionSum(start, end, g)}

\* the response of a request that is answered in the step it is received
Answer(op, start, end, limit, code, rows) ==
    [Received(op, NoProfile) EXCEPT !.pc = "done", !.status = code, !.start = start,
                                    !.end = end, !.limit = limit, !.rows = rows]

\* the selected attributes are the profession alone
BestProfession(start, end) ==
    /\ issued < MaxReq
    /\ IF ProfessionGroups(start, end) = {}
       THEN resp' = Answer("best-profession", start, end, Idle.limit, 404, <<>>)
       ELSE \E g \in TopProfessions(start, end) :
               resp' = Answer("best-profession", start, end, Idle.limit, 200,
                              <<[profession |-> g]>>)
    /\ issued' = issued + 1
    /\ UNCHANGED <<db, now, req>>
    /\ HistUnchanged

\* group by Contract.Client.id, with SUM(price) of each group as 'paid'
ClientGroups(start, end) ==
    {ContractClientId(JobContractId(j)) : j \in ClientJobRows(start, end)}
ClientSum(start, end, client) ==
    SumPrice({j \in ClientJobRows(start, end) :
                 ContractClientId(JobContractId(j)) = client})

\* order: [['paid', 'DESC']] names the column Job.paid, which is true in every
\* row the where clause keeps: the groups come in any order
OrderByJobPaid(start, end) ==
    LET G == ClientGroups(start, end) IN
    {o \in [1 .. Cardinality(G) -> G] : \A g \in G : \E i \in DOMAIN o : o[i] = g}

ClientRow(start, end, client) ==
    [id |-> client, paid |-> ClientSum(start, end, client)]

\* const { limit = 2 } = req.query; parseInt(limit)
ParseInt(raw) ==
    CASE raw.kind = "missing" -> [nan |-> FALSE, val |-> 2]
      [] raw.kind = "number" -> [nan |-> FALSE, val |-> raw.val]
      [] raw.kind = "text" -> [nan |-> TRUE, val |-> 0]

\* the outcomes of LIMIT n on the ordered groups: the first n of them for a
\* positive n; for 0, no row or (a limit the query builder drops) every row;
\* for a negative n or NaN, every row or a query the database rejects
LimitOutcomes(n, ordered) ==
    LET all == [status |-> 200, rows |-> ordered]
        failed == [status |-> 500, rows |-> <<>>]
    IN IF n.nan THEN {all, failed}
       ELSE IF n.val < 0 THEN {all, failed}
       ELSE IF n.val = 0 THEN {all, [status |-> 200, rows |-> <<>>]}
       ELSE IF n.val < Len(ordered)
            THEN {[status |-> 200, rows |-> SubSeq(ordered, 1, n.val)]}
            ELSE {all}

BestClients(start, end, limit) ==
    /\ issued < MaxReq
    /\ \E o \in OrderByJobPaid(start, end) :
          \E out \in LimitOutcomes(ParseInt(limit),
                                    [i \in DOMAIN o |-> ClientRow(start, end, o[i])]) :
             resp' = Answer("best-clients", start, end, limit, out.status, out.rows)
    /\ issued' = issued + 1
    /\ UNCHANGED <<db, now, req>>
    /\ HistUnchanged

\* ------------------------------------------------------ the specification
Next ==
    \/ \E r \in Req, caller \in Profiles, jobId \in JobIdInputs : PayForbidden(r, caller, jobId)
    \/ \E r \in Req, caller \in Profiles, jobId \in JobIdInputs : PayFind(r, caller, jobId)
    \/ \E r \in Req : PayDecrement(r)
    \/ \E r \in Req : PayIncrement(r)
    \/ \E r \in Req : PaySave(r)
    \/ \E r \in Req : PayCommit(r)
    \/ \E r \in Req, caller \in Profiles, raw \in AmountInputs : DepositForbidden(r, caller, raw)
    \/ \E r \in Req, caller \in Profiles, raw \in AmountInputs : DepositSum(r, caller, raw)
    \/ \E r \in Req : DepositIncrement(r)
    \/ \E r \in Req : DepositCommit(r)

Spec == Init /\ [][Next]_vars

\* the settlement engine alone: PayJob requests only
NextPay ==
    \/ \E r \in Req, caller \in Profiles, jobId \in JobIdInputs : PayForbidden(r, caller, jobId)
    \/ \E r \in Req, caller \in Profiles, jobId \in JobIdInputs : PayFind(r, caller, jobId)
    \/ \E r \in Req : PayDecrement(r)
    \/ \E r \in Req : PayIncrement(r)
    \/ \E r \in Req : PaySave(r)
    \/ \E r \in Req : PayCommit(r)

SpecPay == Init /\ [][NextPay]_vars

\* the aggregations next to the settlements whose paid jobs they add up
NextAdmin ==
    \/ \E r \in Req, caller \in Profiles, jobId \in JobIdInputs : PayForbidden(r, caller, jobId)
    \/ \E r \in Req, caller \in Profiles, jobId \in JobIdInputs : PayFind(r, caller, jobId)
    \/ \E r \in Req : PayDecrement(r)
    \/ \E r \in Req : PayIncrement(r)
    \/ \E r \in Req : PaySave(r)
    \/ \E r \in Req : PayCommit(r)
    \/ \E start \in DateInputs, end \in DateInputs : BestProfession(start, end)
    \/ \E start \in DateInputs, end \in DateInputs, limit \in LimitInputs :
            BestClients(start, end, limit)

SpecAdmin == Init /\ [][NextAdmin]_vars

\* ------------------------------------------------------------ properties
\* a request ended in this step; resp' is the request and its response
Ended == resp'.seq # resp.seq

\* the request received in this step: in flight, or already answered
NewRequests ==
    {x \in {resp'} \cup {req'[r] : r \in Req} : issued' = issued + 1 /\ x.seq = issued'}

ClientOf(j) == ContractClientId(JobContractId(j))
ContractorOf(j) == ContractContractorId(JobContractId(j))

RECURSIVE DebitSum(_)
DebitSum(S) ==
    IF S = {} THEN 0
    ELSE LET j == CHOOSE k \in S : TRUE
         IN debits[j] * JobPrice(j) + DebitSum(S \ {j})

\* total debited from client c by committed settlements
DebitedTotal(c) == DebitSum({j \in Jobs : ClientOf(j) = c})

\* exposure of client c: the prices of its unpaid jobs under in_progress contracts
Exposure(c) ==
    SumPrice({j \in Jobs : ~paid[j] /\ ClientOf(j) = c
                           /\ ContractStatus(JobContractId(j)) = "in_progress"})

\* C1: every successful PayJob commits exactly this change: the caller's balance
\* drops by the job's price, the contractor's balance rises by it, and the job
\* goes from unpaid to paid with a paymentDate set.
C1_PayJobCommitsExactChange ==
    [][(Ended /\ resp'.op = "pay" /\ resp'.status = 200) =>
          LET j == resp'.job IN
          /\ balance'[resp'.caller] = balance[resp'.caller] - JobPrice(j)
          /\ balance'[ContractorOf(j)] = balance[ContractorOf(j)] + JobPrice(j)
          /\ paid[j] = FALSE
          /\ paid'[j] = TRUE
          /\ paymentDate'[j] # NoDate]_vars

\* C2: under any interleaving of PayJob transactions, no client balance becomes
\* negative, the total debited from a client never exceeds the balance it held
\* before the attempts, and an attempt on a payable job (found unpaid, its
\* contractor on record) that does not commit ends with 409.
C2_ConcurrentPaysNeverOverdraw ==
    /\ \A c \in Clients : balance[c] >= 0 /\ DebitedTotal(c) <= SeedBalance(c)
    /\ (resp.op = "pay" /\ resp.failedAt \notin {"role", "find"}
          /\ ContractorOf(resp.job) \in Profiles)
         => resp.status \in {200, 409}

\* two PayJob by client 1 on distinct jobs both passed the balance check, one
\* committed and the other lost at the guarded decrement
C2_Witness ==
    /\ resp.op = "pay" /\ resp.status = 409 /\ resp.failedAt = "decrement"
    /\ \E j \in Jobs : j # resp.job /\ ClientOf(j) = resp.caller /\ debits[j] = 1

\* C3: under any interleaving of PayJob transactions on the same job, at most
\* one commits a settlement: the job's price is debited at most once and
\* credited at most once.
C3_AtMostOneSettlementPerJob ==
    \A j \in Jobs : debits[j] <= 1 /\ credits[j] <= 1

\* C4 as claimed: a PayJob received after a settlement of the job committed is
\* answered 404, whoever calls, and changes no balance and no job.
C4_LaterPayJobNotFound ==
    [][\A x \in NewRequests :
          (x.op = "pay" /\ x.job \in Jobs /\ debits[x.job] > 0) =>
              (x.pc = "done" /\ x.status = 404 /\ UNCHANGED db)]_vars

\* C4 amended: a PayJob received after a settlement of the job committed is
\* answered 404 when the caller is a client and 403 when it is not, and
\* changes no balance and no job.
C4_LaterPayJobRejected ==
    [][\A x \in NewRequests :
          (x.op = "pay" /\ x.job \in Jobs /\ debits[x.job] > 0) =>
              /\ x.pc = "done"
              /\ x.status = (IF ProfileType(x.caller) = "client" THEN 404 ELSE 403)
              /\ UNCHANGED db]_vars

\* a client's PayJob on a job the engine had already settled was answered 404
C4_Witness ==
    /\ resp.op = "pay" /\ resp.settledBefore > 0
    /\ ProfileType(resp.caller) = "client" /\ resp.status = 404

\* C5: in every committed state a job is marked paid by the engine if and only
\* if its price was debited from its client and credited to its contractor
\* exactly once.
C5_PaidIffTransferredOnce ==
    \A j \in Jobs :
        (paid[j] /\ ~SeedPaid(j)) <=> (debits[j] = 1 /\ credits[j] = 1)

\* C6: every profile's balance is >= 0 in every committed state.
C6_BalanceNonNegative ==
    \A p \in Profiles : balance[p] >= 0

\* C7: a PayJob that fails at any step leaves the committed balances, paid
\* flags and payment dates as they were; no step other than a request's
\* successful commit changes them.
C7_FailedPayJobChangesNothing ==
    [][/\ (Ended /\ resp'.op = "pay" /\ resp'.status # 200) => UNCHANGED db
       /\ (db' # db) => (Ended /\ resp'.status = 200)]_vars

\* a PayJob failed with 500 at the contractor increment, after its client
\* debit had been issued
C7_Witness ==
    resp.op = "pay" /\ resp.status = 500 /\ resp.failedAt = "increment"

\* C8: a client's Deposit of a positive amount is rejected with 409, the
\* balance unchanged, exactly when amount > exposure/4; otherwise it is
\* accepted and ends with 200 and the balance raised by the amount.
C8_DepositWithinQuarterOfExposure ==
    [][/\ \A x \in NewRequests :
            (x.op = "deposit" /\ ProfileType(x.caller) = "client"
                /\ ~x.nan /\ x.amount > 0) =>
                IF 4 * x.amount > Exposure(x.caller)
                THEN x.pc = "done" /\ x.status = 409 /\ UNCHANGED db
                ELSE x.pc # "done"
       /\ (Ended /\ resp'.op = "deposit" /\ resp'.failedAt # "limit"
             /\ ProfileType(resp'.caller) = "client" /\ ~resp'.nan /\ resp'.amount > 0) =>
            /\ resp'.status = 200
            /\ balance'[resp'.caller] = balance[resp'.caller] + resp'.amount]_vars

\* a deposit of exactly a quarter of the exposure succeeded
C8_Witness ==
    /\ resp.op = "deposit" /\ resp.status = 200
    /\ resp.amount > 0 /\ 4 * resp.amount = resp.exposure

\* C9: when the caller has no unpaid job under an in_progress contract,
\* Deposit is rejected for every amount > 0 and changes no balance.
C9_NoExposureNoDeposit ==
    [][\A x \in NewRequests :
          (x.op = "deposit" /\ ProfileType(x.caller) = "client"
              /\ ~x.nan /\ x.amount > 0 /\ Exposure(x.caller) = 0) =>
              (x.pc = "done" /\ x.status = 409 /\ UNCHANGED db)]_vars

\* a client without exposure was refused a positive deposit
C9_Witness ==
    /\ resp.op = "deposit" /\ resp.status = 409 /\ resp.failedAt = "limit"
    /\ resp.amount > 0 /\ resp.exposure = 0

\* C10: a client's Deposit whose amount is not a positive number (zero,
\* negative, NaN or missing) is answered InvalidArgument (400) and changes no
\* balance.
C10_NonPositiveDepositInvalid ==
    [][(Ended /\ resp'.op = "deposit" /\ ProfileType(resp'.caller) = "client"
          /\ (resp'.nan \/ resp'.amount <= 0)) =>
          (resp'.status = 400 /\ UNCHANGED db)]_vars

\* C11: PayJob and Deposit called by a profile that is not a client are answered
\* 403 in the step that receives them, whatever the job id, the amount and the
\* stored records are, and change no balance and no job.
C11_NonClientForbidden ==
    [][\A x \in NewRequests :
          (x.op \in {"pay", "deposit"} /\ ProfileType(x.caller) # "client") =>
              (x.pc = "done" /\ x.status = 403 /\ UNCHANGED <<db, req>>)]_vars

\* a contractor's PayJob on a payable job and a contractor's Deposit were refused
C11_Witness ==
    /\ resp.status = 403 /\ resp.caller \in Contractors
    /\ resp.op = "pay" /\ resp.job \in Jobs /\ ~paid[resp.job]

\* the job is unpaid, under an in_progress contract whose client is the caller
Eligible(caller, jobId) ==
    /\ jobId \in Jobs
    /\ ~paid[jobId]
    /\ ContractStatus(JobContractId(jobId)) = "in_progress"
    /\ ClientOf(jobId) = caller

\* C12: a client's PayJob goes on to settle only when the lookup finds the job
\* unpaid, under an in_progress contract whose client is the caller; when any
\* of the three fails, or the id is unknown, it is answered 404 and changes
\* nothing.
C12_IneligibleJobNotFound ==
    [][\A x \in NewRequests :
          (x.op = "pay" /\ ProfileType(x.caller) = "client") =>
              IF Eligible(x.caller, x.job)
              THEN x.status # 404
              ELSE x.pc = "done" /\ x.status = 404 /\ UNCHANGED db]_vars

\* a client was answered 404 for an unpaid job: its contract is terminated or
\* belongs to another client
C12_Witness ==
    /\ resp.op = "pay" /\ resp.status = 404 /\ ProfileType(resp.caller) = "client"
    /\ resp.job \in Jobs /\ ~paid[resp.job] /\ debits[resp.job] = 0

\* C13: for an eligible job, PayJob is answered 409 exactly when the client's
\* balance is below the price, at the check on the balance read and at the
\* guarded decrement; with balance = price it goes on, it can then fail only
\* with 500 for a contractor that is not on record, and its commit leaves the
\* balance at 0.
C13_InsufficientFundsIffBelowPrice ==
    [][/\ \A x \in NewRequests :
            (x.op = "pay" /\ ProfileType(x.caller) = "client"
                /\ Eligible(x.caller, x.job)) =>
                IF balance[x.caller] < JobPrice(x.job)
                THEN x.pc = "done" /\ x.status = 409 /\ UNCHANGED db
                ELSE x.pc = "decrement"
       /\ \A r \in Req :
            (req[r].pc = "decrement" /\ req'[r] # req[r]) =>
                IF balance[req[r].caller] < JobPrice(req[r].job)
                THEN Ended /\ resp'.seq = req[r].seq /\ resp'.status = 409
                     /\ UNCHANGED db
                ELSE req'[r].pc = "increment"
       /\ (Ended /\ resp'.op = "pay" /\ resp'.status = 409) =>
              balance[resp'.caller] < JobPrice(resp'.job)
       /\ (Ended /\ resp'.op = "pay" /\ resp'.failedAt \notin {"role", "find"}
             /\ resp'.status \notin {200, 409}) =>
              (resp'.status = 500 /\ ContractorOf(resp'.job) \notin Profiles)
       /\ (Ended /\ resp'.op = "pay" /\ resp'.status = 200) =>
              /\ balance[resp'.caller] >= JobPrice(resp'.job)
              /\ balance'[resp'.caller] = balance[resp'.caller] - JobPrice(resp'.job)]_vars

\* a settlement with balance = price committed and left the client at 0
C13_Witness ==
    /\ resp.op = "pay" /\ resp.status = 200
    /\ balance[resp.caller] = 0
    /\ SeedBalance(resp.caller) = JobPrice(resp.job)

\* C18: a job's paid flag never goes from true back to false, and once a job
\* is paid its paymentDate is never written again (its price is never written
\* at all).
C18_PaidJobImmutable ==
    [][\A j \in Jobs :
          paid[j] => (paid'[j] /\ paymentDate'[j] = paymentDate[j])]_vars

\* C19: a successful Deposit(amount) raises the committed balance of the caller
\* by exactly amount, on top of whatever other transactions committed
\* meanwhile, and leaves every other balance and every job as it was.
C19_DepositAddsExactlyAmount ==
    [][(Ended /\ resp'.op = "deposit" /\ resp'.status = 200) =>
          /\ balance' = [balance EXCEPT ![resp'.caller] = @ + resp'.amount]
          /\ paid' = paid
          /\ paymentDate' = paymentDate]_vars

\* a deposit committed on a balance that a settlement had changed since the
\* deposit was received
C19_Witness ==
    /\ resp.op = "deposit" /\ resp.status = 200 /\ resp.amount > 0
    /\ \E j \in Jobs : ClientOf(j) = resp.caller /\ debits[j] > 0
    /\ balance[resp.caller] = SeedBalance(resp.caller) + resp.amount
                                - DebitedTotal(resp.caller)

RECURSIVE SumBalance(_)
SumBalance(S) ==
    IF S = {} THEN 0
    ELSE LET p == CHOOSE q \in S : TRUE IN balance[p] + SumBalance(S \ {p})

RECURSIVE SumSeedBalance(_)
SumSeedBalance(S) ==
    IF S = {} THEN 0
    ELSE LET p == CHOOSE q \in S : TRUE IN SeedBalance(p) + SumSeedBalance(S \ {p})

\* C20: in every committed state the sum of all balances is the initial sum
\* plus the total of the committed deposit amounts; no PayJob outcome changes
\* the sum.
C20_MoneyConserved ==
    SumBalance(Profiles) = SumSeedBalance(Profiles) + deposited

\* a settlement and a deposit have both committed
C20_Witness ==
    /\ deposited > 0
    /\ \E j \in Jobs : debits[j] > 0

\* the paid jobs whose paymentDate lies in [start, end], a bound that was not
\* given (NoDate) leaving its side open
JobsInRange(start, end) ==
    {j \in Jobs : /\ paid[j]
                  /\ (start = NoDate \/ start <= paymentDate[j])
                  /\ (end = NoDate \/ paymentDate[j] <= end)}

ClientsInRange(start, end) == {ClientOf(j) : j \in JobsInRange(start, end)}
ClientTotal(start, end, client) ==
    SumPrice({j \in JobsInRange(start, end) : ClientOf(j) = client})

ProfessionsInRange(start, end) ==
    {Profession(ContractorOf(j)) : j \in JobsInRange(start, end)}
ProfessionTotal(start, end, profession) ==
    SumPrice({j \in JobsInRange(start, end) : Profession(ContractorOf(j)) = profession})

\* the limit of a BestClients request is a positive integer, or the default
ValidLimit(limit) == limit.kind = "missing" \/ (limit.kind = "number" /\ limit.val >= 1)
LimitValue(limit) == IF limit.kind = "missing" THEN 2 ELSE limit.val

\* C14: BestProfession(start, end) answers NotFound when no paid job lies in
\* the range, and otherwise returns a profession whose paid jobs in the range
\* have the maximum summed price, together with that total.
C14_BestProfessionWithTotal ==
    [][(Ended /\ resp'.op = "best-profession") =>
          LET x == resp'
              P == ProfessionsInRange(x.start, x.end)
          IN IF P = {} THEN x.status = 404
             ELSE /\ x.status = 200
                  /\ Len(x.rows) = 1
                  /\ x.rows[1].profession \in P
                  /\ \A h \in P : ProfessionTotal(x.start, x.end, h)
                                     <= ProfessionTotal(x.start, x.end, x.rows[1].profession)
                  /\ \E f \in DOMAIN x.rows[1] \ {"profession"} :
                        x.rows[1][f] = ProfessionTotal(x.start, x.end, x.rows[1].profession)]_vars

\* C15: BestClients(start, end, limit) with a valid limit returns one entry
\* per client that has paid jobs in the range, each with the sum of their
\* prices, ordered by that sum descending and cut to the first limit entries
\* (2 when no limit is given).
C15_BestClientsOrderedBySum ==
    [][(Ended /\ resp'.op = "best-clients" /\ ValidLimit(resp'.limit)) =>
          LET x == resp'
              G == ClientsInRange(x.start, x.end)
              n == IF LimitValue(x.limit) < Cardinality(G) THEN LimitValue(x.limit)
                                                           ELSE Cardinality(G)
          IN /\ x.status = 200
             /\ Len(x.rows) = n
             /\ \A i \in 1 .. n :
                   /\ x.rows[i].id \in G
                   /\ x.rows[i].paid = ClientTotal(x.start, x.end, x.rows[i].id)
                   /\ \A k \in 1 .. n : k > i => x.rows[k].paid <= x.rows[i].paid
                   /\ \A k \in 1 .. n : k # i => x.rows[k].id # x.rows[i].id
                   /\ \A g \in G : (\A k \in 1 .. n : x.rows[k].id # g) =>
                                       ClientTotal(x.start, x.end, g) <= x.rows[i].paid]_vars

\* C16: BestClients with a limit that is zero, negative or not a number fails
\* with InvalidArgument (400) and returns no result.
C16_InvalidLimitRejected ==
    [][(Ended /\ resp'.op = "best-clients" /\ ~ValidLimit(resp'.limit)) =>
          (resp'.status = 400 /\ resp'.rows = <<>>)]_vars

\* C17: in both aggregations a job counts if and only if it is paid and its
\* paymentDate is >= start when start is given and <= end when end is given:
\* every BestClients entry carries exactly the sum of its client's jobs in
\* the range and only clients with such jobs are listed (all of them unless
\* the limit cuts the list), and BestProfession answers NotFound exactly when
\* no job is in the range and otherwise a profession with the largest sum
\* over the jobs in the range.
C17_DateRangeInclusive ==
    [][(Ended /\ resp'.op \in {"best-profession", "best-clients"} /\ resp'.status # 500) =>
          LET x == resp'
              G == ClientsInRange(x.start, x.end)
              P == ProfessionsInRange(x.start, x.end)
          IN IF x.op = "best-clients"
             THEN /\ \A i \in DOMAIN x.rows :
                       /\ x.rows[i].id \in G
                       /\ x.rows[i].paid = ClientTotal(x.start, x.end, x.rows[i].id)
                  /\ (ValidLimit(x.limit) /\ Len(x.rows) < LimitValue(x.limit)) =>
                        \A g \in G : \E i \in DOMAIN x.rows : x.rows[i].id = g
             ELSE /\ x.status = 404 <=> P = {}
                  /\ x.status # 404 =>
                        /\ x.rows[1].profession \in P
                        /\ \A h \in P :
                              ProfessionTotal(x.start, x.end, h)
                                <= ProfessionTotal(x.start, x.end, x.rows[1].profession)]_vars

\* BestClients over [d, d] lists a job paid exactly on d and leaves a job paid
\* before d out
C17_Witness ==
    /\ resp.op = "best-clients" /\ resp.status = 200
    /\ resp.start # NoDate /\ resp.end = resp.start
    /\ Len(resp.rows) = 1
    /\ \E j, k \in Jobs :
          /\ paid[j] /\ paymentDate[j] = resp.start
          /\ paid[k] /\ paymentDate[k] < resp.start
          /\ resp.rows[1].id = ClientOf(j) /\ resp.rows[1].paid = JobPrice(j)
          /\ ClientOf(k) # ClientOf(j)

====
